---- MODULE Spec2Model ----
(***************************************************************************)
(* A model of the line interpreter of src/main.go: the Store (variables    *)
(* and functions), the Lexer, the recursive-descent Parser that evaluates  *)
(* while it parses, evaluateFunction's save/bind/restore of parameters and *)
(* processLine's routing of a line to its handler.                         *)
(*                                                                         *)
(* Text is a sequence of one-character strings.  A float64 is a record     *)
(* [k, n, d]: k = "fin" is the rational n/d in lowest terms, "pinf",       *)
(* "ninf" and "nan" are the IEEE specials, "min64" is -2^63 and "max64" is *)
(* 2^63 (what float64(int64 max) rounds to).  Arithmetic on finite values  *)
(* is exact rational arithmetic (float64 rounding is not modelled), -0 is  *)
(* identified with 0 (the code never divides by a computed zero: it        *)
(* divides by the constant 0.0), and a value outside the bounds is "oor":  *)
(* a line whose evaluation meets one is outside the bounded model.         *)
(***************************************************************************)
EXTENDS Integers, Sequences, FiniteSets, TLC

VARIABLES
    variables,  \* map name -> [isInt, value]           (main.go:25)
    functions,  \* map name -> [params, expression]     (main.go:26)
    build,      \* the platform the program was built for
    pc,         \* "running" | "crashed" | "done"        (main)
    nlines,     \* number of lines read so far
    last        \* history: what the last processed line did

vars == <<variables, functions, build, pc, nlines, last>>

\* ---------------------------------------------------------------- bounds
MaxLines == 3
MaxNum == 40
MaxDen == 4

\* ------------------------------------------------------------------ text
Chars(s) == [i \in 1..Len(s) |-> SubSeq(s, i, i)]

Digit == {"0", "1", "2", "3", "4", "5", "6", "7", "8", "9"}

Letter ==
    {"a", "b", "c", "d", "e", "f", "g", "h", "i", "j", "k", "l", "m",
     "n", "o", "p", "q", "r", "s", "t", "u", "v", "w", "x", "y", "z"}

IsSpace(c) == c \in {" ", "\t"}
IsDigit(c) == c \in Digit
IsLetter(c) == c \in Letter

RECURSIVE TrimLeft(_)
TrimLeft(s) ==
    IF s # <<>> /\ IsSpace(Head(s)) THEN TrimLeft(Tail(s)) ELSE s

RECURSIVE TrimRight(_)
TrimRight(s) ==
    IF s # <<>> /\ IsSpace(s[Len(s)])
    THEN TrimRight(SubSeq(s, 1, Len(s) - 1))
    ELSE s

TrimSpace(s) == TrimRight(TrimLeft(s))

HasPrefix(s, prefix) ==
    Len(s) >= Len(prefix) /\ SubSeq(s, 1, Len(prefix)) = prefix

HasSuffix(s, suffix) ==
    Len(s) >= Len(suffix)
    /\ SubSeq(s, Len(s) - Len(suffix) + 1, Len(s)) = suffix

\* strings.Index: the 0-based index of the first occurrence, or -1.
Index(s, sub) ==
    LET hits == {i \in 0..(Len(s) - Len(sub)) :
                    SubSeq(s, i + 1, i + Len(sub)) = sub}
    IN  IF hits = {} THEN -1
        ELSE CHOOSE i \in hits : \A j \in hits : i <= j

Contains(s, sub) == Index(s, sub) # -1

\* strings.SplitN(s, sep, 2) for an s that contains sep.
SplitN2(s, sep) ==
    LET i == Index(s, sep)
    IN  <<SubSeq(s, 1, i), SubSeq(s, i + Len(sep) + 1, Len(s))>>

\* strings.Split(s, sep): every piece, empty ones included.
RECURSIVE Split(_, _)
Split(s, sep) ==
    IF Contains(s, sep)
    THEN <<SplitN2(s, sep)[1]>> \o Split(SplitN2(s, sep)[2], sep)
    ELSE <<s>>

\* --------------------------------------------------------------- float64
RECURSIVE GCD(_, _)
GCD(a, b) == IF b = 0 THEN a ELSE GCD(b, a % b)

Abs(x) == IF x < 0 THEN -x ELSE x

Special(kind) == [k |-> kind, n |-> 0, d |-> 1]
PInf == Special("pinf")
NInf == Special("ninf")
NaN == Special("nan")
Min64 == Special("min64")
Max64 == Special("max64")
OOR == Special("oor")

\* The rational n/d (d > 0) in lowest terms, or OOR beyond the bounds.
Fin(n, d) ==
    LET g == GCD(Abs(n), d)
        nn == n \div g
        dd == d \div g
    IN  IF n = 0 THEN [k |-> "fin", n |-> 0, d |-> 1]
        ELSE IF Abs(nn) > MaxNum \/ dd > MaxDen THEN OOR
        ELSE [k |-> "fin", n |-> nn, d |-> dd]

Zero == Fin(0, 1)
IsFin(x) == x.k = "fin"
IsBig(x) == x.k \in {"min64", "max64"}
IsZero(x) == x.k = "fin" /\ x.n = 0
\* The sign of a value that is not NaN: -1, 0 or 1.
Sign(x) ==
    CASE x.k = "fin" -> (IF x.n > 0 THEN 1 ELSE IF x.n < 0 THEN -1 ELSE 0)
      [] x.k \in {"pinf", "max64"} -> 1
      [] OTHER -> -1
Signed(s) == IF s > 0 THEN PInf ELSE NInf
Neg(x) ==
    CASE x.k = "fin" -> Fin(-x.n, x.d)
      [] x.k = "pinf" -> NInf
      [] x.k = "ninf" -> PInf
      [] OTHER -> x

\* Go's float64 ==: NaN equals nothing.
FloatEq(x, y) == x.k # "nan" /\ y.k # "nan" /\ x = y

\* val + right
Add(x, y) ==
    CASE x.k = "oor" \/ y.k = "oor" -> OOR
      [] x.k = "nan" \/ y.k = "nan" -> NaN
      [] IsBig(x) \/ IsBig(y) -> OOR
      [] IsFin(x) /\ IsFin(y) -> Fin(x.n * y.d + y.n * x.d, x.d * y.d)
      [] IsFin(x) -> y
      [] IsFin(y) -> x
      [] OTHER -> IF x = y THEN x ELSE NaN

\* val - right
Sub(x, y) == Add(x, Neg(y))

\* val * right
Mul(x, y) ==
    CASE x.k = "oor" \/ y.k = "oor" -> OOR
      [] x.k = "nan" \/ y.k = "nan" -> NaN
      [] IsBig(x) \/ IsBig(y) -> OOR
      [] IsFin(x) /\ IsFin(y) -> Fin(x.n * y.n, x.d * y.d)
      [] IsZero(x) \/ IsZero(y) -> NaN
      [] OTHER -> Signed(Sign(x) * Sign(y))

\* val / 0.0
DivByZero(x) ==
    CASE x.k \in {"oor", "nan", "pinf", "ninf"} -> x
      [] IsBig(x) -> Signed(Sign(x))
      [] IsZero(x) -> NaN
      [] OTHER -> Signed(Sign(x))

\* val / right for right # 0
Div(x, y) ==
    CASE x.k = "oor" \/ y.k = "oor" -> OOR
      [] x.k = "nan" \/ y.k = "nan" -> NaN
      [] IsBig(x) \/ IsBig(y) -> OOR
      [] IsFin(x) /\ IsFin(y) ->
            Fin(x.n * y.d * Sign(y), x.d * Abs(y.n))
      [] IsFin(x) -> Zero
      [] IsFin(y) -> Signed(Sign(x) * Sign(y))
      [] OTHER -> NaN

\* The platforms: what int64(x) gives for an x that int64 cannot hold is
\* implementation-dependent in Go.  amd64 gives the smallest int64 for all
\* of them; arm64 saturates and gives 0 for NaN.
Builds == {"amd64", "arm64"}

\* float64(int64(val))
Int64(val) ==
    CASE val.k = "fin" ->
            IF val.n >= 0 THEN Fin(val.n \div val.d, 1)
            ELSE Fin(-((-val.n) \div val.d), 1)
      [] val.k \in {"oor", "min64", "ninf"} ->
            IF val.k = "oor" THEN OOR ELSE Min64
      [] val.k \in {"pinf", "max64"} ->
            IF build = "amd64" THEN Min64 ELSE Max64
      [] OTHER -> IF build = "amd64" THEN Min64 ELSE Zero

\* float64(int64(val)) == val
IsInteger(val) == FloatEq(Int64(val), val)

\* ----------------------------------------------------------------- Store
\* setVariable: an existing variable keeps its flag and takes the value
\* coerced to it; a new one is created with the flag given.
setVariable(vs, name, isInt, val) ==
    IF name \in DOMAIN vs
    THEN [vs EXCEPT ![name].value =
                        IF vs[name].isInt THEN Int64(val) ELSE val]
    ELSE vs @@ (name :> [isInt |-> isInt,
                         value |-> IF isInt THEN Int64(val) ELSE val])

\* setFunction keeping the definition a name already has.
setFunctionKeeping(fs, name, params, expr) ==
    [x \in DOMAIN fs \cup {name} |->
        IF x \in DOMAIN fs THEN fs[x]
        ELSE [params |-> params, expression |-> expr]]

\* setFunction
setFunction(fs, name, params, expr) ==
    [x \in DOMAIN fs \cup {name} |->
        IF x = name THEN [params |-> params, expression |-> expr]
        ELSE fs[x]]

\* delete(variables, name)
Delete(vs, name) == [x \in DOMAIN vs \ {name} |-> vs[x]]

\* ----------------------------------------------------------------- Lexer
NUL == ""

Token(typ, value) == [typ |-> typ, value |-> value]

NewLexer(s) == [input |-> s, pos |-> 0]

peekRune(l) ==
    IF l.pos >= Len(l.input) THEN NUL ELSE l.input[l.pos + 1]

\* nextRune, for its effect on the cursor
nextRune(l) ==
    IF l.pos >= Len(l.input) THEN l ELSE [l EXCEPT !.pos = l.pos + 1]

RECURSIVE SkipSpace(_)
SkipSpace(l) == IF IsSpace(peekRune(l)) THEN SkipSpace(nextRune(l)) ELSE l

\* The number loop: digits and at most one '.', stopping before a second.
RECURSIVE ScanNumber(_, _)
ScanNumber(l, dotCount) ==
    IF IsDigit(peekRune(l)) \/ peekRune(l) = "."
    THEN IF peekRune(l) = "." /\ dotCount + 1 > 1 THEN l
         ELSE ScanNumber(nextRune(l),
                         IF peekRune(l) = "." THEN dotCount + 1
                         ELSE dotCount)
    ELSE l

RECURSIVE ScanIdent(_)
ScanIdent(l) ==
    IF IsLetter(peekRune(l)) \/ IsDigit(peekRune(l)) \/ peekRune(l) = "_"
    THEN ScanIdent(nextRune(l))
    ELSE l

SingleCharToken ==
    [c \in {"+", "-", "*", "/", "(", ")", ","} |->
        CASE c = "+" -> "TokenPlus"
          [] c = "-" -> "TokenMinus"
          [] c = "*" -> "TokenStar"
          [] c = "/" -> "TokenSlash"
          [] c = "(" -> "TokenLParen"
          [] c = ")" -> "TokenRParen"
          [] OTHER -> "TokenComma"]

\* Lexer.NextToken: the token and the lexer after it.
NextToken(l0) ==
    LET l == SkipSpace(l0)
        r == peekRune(l)
    IN  CASE r = NUL -> [tok |-> Token("TokenEOF", <<>>), l |-> l]
          [] r \in DOMAIN SingleCharToken ->
                [tok |-> Token(SingleCharToken[r], <<r>>), l |-> nextRune(l)]
          [] IsDigit(r) ->
                LET e == ScanNumber(l, 0)
                IN  [tok |-> Token("TokenNumber",
                                   SubSeq(l.input, l.pos + 1, e.pos)),
                     l |-> e]
          [] IsLetter(r) \/ r = "_" ->
                LET e == ScanIdent(l)
                IN  [tok |-> Token("TokenIdent",
                                   SubSeq(l.input, l.pos + 1, e.pos)),
                     l |-> e]
          [] OTHER -> [tok |-> Token("TokenError", <<r>>), l |-> l]

\* strconv.ParseFloat on a token of digits with at most one '.': the
\* digits before the point, then the digits after it over a power of ten.
DigitVal(c) == CHOOSE v \in 0..9 : <<"0", "1", "2", "3", "4", "5", "6", "7", "8", "9">>[v + 1] = c

RECURSIVE Pow10(_)
Pow10(k) == IF k = 0 THEN 1 ELSE 10 * Pow10(k - 1)

RECURSIVE DigitsVal(_)
DigitsVal(ds) ==
    IF ds = <<>> THEN 0
    ELSE 10 * DigitsVal(SubSeq(ds, 1, Len(ds) - 1)) + DigitVal(ds[Len(ds)])

ParseFloat(s) ==
    LET dot == Index(s, <<".">>)
        whole == IF dot = -1 THEN s ELSE SubSeq(s, 1, dot)
        frac == IF dot = -1 THEN <<>> ELSE SubSeq(s, dot + 2, Len(s))
        wellFormed == /\ \A i \in 1..Len(whole) : IsDigit(whole[i])
                      /\ \A i \in 1..Len(frac) : IsDigit(frac[i])
                      /\ Len(whole) + Len(frac) > 0
    IN  IF wellFormed
        THEN [err |-> FALSE,
              f |-> Fin(DigitsVal(whole) * Pow10(Len(frac)) + DigitsVal(frac),
                        Pow10(Len(frac)))]
        ELSE [err |-> TRUE, f |-> Zero]

\* ---------------------------------------------------------------- Parser
\* errMsg: "" is no error; a message is its fixed text and the text added.
NoError == [text |-> "", arg |-> <<>>]
Message(text, arg) == [text |-> text, arg |-> arg]

\* One line of output: a diagnostic or a printed variable.
Output(kind, name, var) == [kind |-> kind, name |-> name, var |-> var]
NoVar == [isInt |-> FALSE, value |-> Zero]

\* Parser.next
advance(p, t) == [p EXCEPT !.lexer = t.l, !.curr = t.tok]
next(p) == advance(p, NextToken(p.lexer))

\* first is history: the message of the first call of Parser.error on this
\* parser; the program keeps errMsg alone.
NewParser(input) ==
    next([lexer |-> NewLexer(input),
          curr |-> Token("TokenEOF", <<>>),
          errMsg |-> NoError,
          first |-> NoError])

\* Parser.error
error(p, msg) ==
    [p EXCEPT !.errMsg = msg,
              !.first = IF @ = NoError THEN msg ELSE @]

\* What an evaluation reads and writes besides its parser: the variables
\* map, the output, the log of the calls that returned, whether the stack
\* overflowed, and whether a value left the bounds of the model.
Globals(vs) ==
    [variables |-> vs, out |-> <<>>, calls |-> <<>>,
     crash |-> FALSE, oor |-> FALSE]

Chk(g, v) == [g EXCEPT !.oor = @ \/ v.k = "oor"]
Emit(g, o) == [g EXCEPT !.out = Append(@, o)]

\* What a parse function hands back: the parser and the globals after it,
\* and the value.
Result(p, g, val) == [p |-> p, g |-> g, val |-> val]

\* Quotient with division by zero answered by 0 instead of an infinity.
QuotientZeroed(val, right) ==
    IF FloatEq(right, Zero) THEN Zero ELSE Div(val, right)

\* The '/' branch of parseTerm.
Quotient(val, right) ==
    IF FloatEq(right, Zero) THEN DivByZero(val) ELSE Div(val, right)

\* saveParam copying the flag and leaving the value out.
saveParamFlagOnly(backup, paramName, v) ==
    [x \in DOMAIN backup \cup {paramName} |->
        IF x = paramName THEN [isInt |-> v.isInt, value |-> Zero]
        ELSE backup[x]]

\* backup[paramName] = a copy of the variable
saveParam(backup, paramName, v) ==
    [x \in DOMAIN backup \cup {paramName} |->
        IF x = paramName THEN v ELSE backup[x]]

\* One parameter of evaluateFunction's first loop: the variable a call
\* binds to it.
bindParam(vs, paramName, arg) ==
    setVariable(vs, paramName, IsInteger(arg), arg)

\* evaluateFunction's first loop: save what a parameter's name holds, then
\* bind the argument to it.
RECURSIVE bindParams(_, _, _, _, _)
bindParams(params, args, i, vs, backup) ==
    IF i > Len(params) THEN [variables |-> vs, backup |-> backup]
    ELSE bindParams(params, args, i + 1,
                    bindParam(vs, params[i], args[i]),
                    IF params[i] \in DOMAIN vs
                    THEN saveParam(backup, params[i], vs[params[i]])
                    ELSE backup)

\* restoreParam deleting the parameter without putting the saved variable
\* back.
restoreParamDropping(vs, paramName, backup) == Delete(vs, paramName)

\* One parameter of evaluateFunction's last loop: delete it, put back what
\* was saved under its name.
restoreParam(vs, paramName, backup) ==
    IF paramName \in DOMAIN backup
    THEN Delete(vs, paramName) @@ (paramName :> backup[paramName])
    ELSE Delete(vs, paramName)

RECURSIVE restoreParams(_, _, _, _)
restoreParams(params, i, vs, backup) ==
    IF i > Len(params) THEN vs
    ELSE restoreParams(params, i + 1,
                       restoreParam(vs, params[i], backup), backup)

DigitChar(k) == <<"0", "1", "2", "3", "4", "5", "6", "7", "8", "9">>[k + 1]

RECURSIVE parseExpression(_, _, _)
RECURSIVE parseExpressionLoop(_, _)
RECURSIVE expressionStep(_, _, _, _)
RECURSIVE parseTerm(_, _, _)
RECURSIVE parseTermLoop(_, _)
RECURSIVE termStep(_, _, _, _)
RECURSIVE parseFactor(_, _, _)
RECURSIVE factorIdent(_, _, _, _)
RECURSIVE factorCall(_, _, _)
RECURSIVE factorParen(_)
RECURSIVE parseArgs(_, _, _, _)
RECURSIVE argsStep(_, _, _)
RECURSIVE callFunction(_, _, _, _, _)
RECURSIVE evaluateFunction(_, _, _, _)
RECURSIVE functionBody(_, _, _, _, _)

\* evaluateFunction after the body: report the body's error, restore the
\* parameters, return the body's value.  The call is logged.
functionReturn(fn, args, g, b, r, depth) ==
    [g |-> [variables |-> restoreParams(fn.params, 1, r.g.variables, b.backup),
            out |-> IF r.p.errMsg # NoError
                    THEN Append(r.g.out,
                                Output("function error", r.p.errMsg.arg, NoVar))
                    ELSE r.g.out,
            calls |-> Append(r.g.calls,
                        [params |-> fn.params, args |-> args,
                         before |-> g.variables, bound |-> b.variables,
                         after |-> restoreParams(fn.params, 1, r.g.variables,
                                                 b.backup),
                         errMsg |-> r.p.errMsg, first |-> r.p.first,
                         val |-> r.val, depth |-> depth + 1]),
            crash |-> r.g.crash,
            oor |-> r.g.oor],
     val |-> r.val]

\* evaluateFunction once the parameters are bound: the body is evaluated by
\* a parser of its own, against the shared variables.
functionBody(fn, args, g, b, depth) ==
    functionReturn(fn, args, g, b,
                   parseExpression(NewParser(fn.expression),
                                   [g EXCEPT !.variables = b.variables],
                                   depth + 1),
                   depth)

\* depth counts the calls in progress: more of them than there are
\* functions means one function is being evaluated inside itself, and since
\* what a body calls depends on its text alone the recursion never ends:
\* the stack overflows and the program dies.
evaluateFunction(fn, args, g, depth) ==
    IF depth + 1 > Cardinality(DOMAIN functions)
    THEN [g |-> [g EXCEPT !.crash = TRUE], val |-> Zero]
    ELSE functionBody(fn, args, g,
                      bindParams(fn.params, args, 1, g.variables, <<>>),
                      depth)

\* The parser goes on where the call ended, with the call's value.
returned(p, r) == Result(p, r.g, r.val)

\* callFunction refusing too few arguments only.
callFunctionLax(p, g, identName, args, depth) ==
    IF identName \notin DOMAIN functions
    THEN Result(p, Emit(g, Output("undeclared function", identName, NoVar)),
                Zero)
    ELSE IF Len(functions[identName].params) > Len(args)
    THEN Result(error(p, Message("function expected arguments",
                    identName \o <<" ",
                        DigitChar(Len(functions[identName].params)),
                        " ", DigitChar(Len(args))>>)),
                g, Zero)
    ELSE returned(p, evaluateFunction(functions[identName], args, g, depth))

\* parseFactor after the ')' of a call: look the function up, check the
\* number of arguments, evaluate.
callFunction(p, g, identName, args, depth) ==
    IF identName \notin DOMAIN functions
    THEN Result(p, Emit(g, Output("undeclared function", identName, NoVar)),
                Zero)
    ELSE IF Len(functions[identName].params) # Len(args)
    THEN Result(error(p, Message("function expected arguments",
                    identName \o <<" ",
                        DigitChar(Len(functions[identName].params)),
                        " ", DigitChar(Len(args))>>)),
                g, Zero)
    ELSE returned(p, evaluateFunction(functions[identName], args, g, depth))

\* The argument loop of parseFactor: r is the argument just evaluated.
argsStep(r, args, depth) ==
    IF r.p.curr.typ = "TokenComma"
    THEN parseArgs(next(r.p), r.g, Append(args, r.val), depth)
    ELSE [p |-> r.p, g |-> r.g, args |-> Append(args, r.val)]

parseArgs(p, g, args, depth) ==
    argsStep(parseExpression(p, g, depth), args, depth)

\* parseFactor after the argument list a of a call of identName.
factorCall(identName, a, depth) ==
    IF a.p.curr.typ # "TokenRParen"
    THEN Result(error(a.p, Message("expected ) in function call", <<>>)),
                a.g, Zero)
    ELSE callFunction(next(a.p), a.g, identName, a.args, depth)

\* factorIdent taking an undeclared variable for a parse error.
factorIdentFlagging(identName, p1, g, depth) ==
    IF p1.curr.typ = "TokenLParen"
    THEN factorCall(identName,
                    IF next(p1).curr.typ # "TokenRParen"
                    THEN parseArgs(next(p1), g, <<>>, depth)
                    ELSE [p |-> next(p1), g |-> g, args |-> <<>>],
                    depth)
    ELSE IF identName \in DOMAIN g.variables
    THEN Result(p1, g, g.variables[identName].value)
    ELSE Result(error(p1, Message("undeclared variable", identName)),
                Emit(g, Output("undeclared variable", identName, NoVar)),
                Zero)

\* parseFactor on an identifier, p1 being the parser after it: a call when
\* '(' follows, a variable otherwise.
factorIdent(identName, p1, g, depth) ==
    IF p1.curr.typ = "TokenLParen"
    THEN factorCall(identName,
                    IF next(p1).curr.typ # "TokenRParen"
                    THEN parseArgs(next(p1), g, <<>>, depth)
                    ELSE [p |-> next(p1), g |-> g, args |-> <<>>],
                    depth)
    ELSE IF identName \in DOMAIN g.variables
    THEN Result(p1, g, g.variables[identName].value)
    ELSE Result(p1, Emit(g, Output("undeclared variable", identName, NoVar)),
                Zero)

\* parseFactor after the expression in parentheses.
factorParen(r) ==
    IF r.p.curr.typ # "TokenRParen"
    THEN Result(error(r.p, Message("expected )", <<>>)), r.g, r.val)
    ELSE Result(next(r.p), r.g, r.val)

\* parseFactor on a number token, c being what ParseFloat made of it.
factorNumber(p, g, c) ==
    IF c.err
    THEN Result(error(p, Message("cannot convert number", p.curr.value)),
                g, Zero)
    ELSE Result(next(p), Chk(g, c.f), c.f)

parseFactor(p, g, depth) ==
    IF p.curr.typ = "TokenNumber"
    THEN factorNumber(p, g, ParseFloat(p.curr.value))
    ELSE IF p.curr.typ = "TokenIdent"
    THEN factorIdent(p.curr.value, next(p), g, depth)
    ELSE IF p.curr.typ = "TokenLParen"
    THEN factorParen(parseExpression(next(p), g, depth))
    ELSE Result(error(p, Message("unexpected token", p.curr.value)), g, Zero)

\* The accumulated value goes on into the loop it came from.
accumulate(r, v) == Result(r.p, Chk(r.g, v), v)

\* One turn of parseTerm's loop: val op right.
termStep(op, val, r, depth) ==
    parseTermLoop(accumulate(r, IF op = "TokenStar" THEN Mul(val, r.val)
                                ELSE Quotient(val, r.val)),
                  depth)

parseTermLoop(r, depth) ==
    IF r.p.curr.typ \in {"TokenStar", "TokenSlash"}
    THEN termStep(r.p.curr.typ, r.val, parseFactor(next(r.p), r.g, depth),
                  depth)
    ELSE r

parseTerm(p, g, depth) == parseTermLoop(parseFactor(p, g, depth), depth)

\* One turn of parseExpression's loop: val op right.
expressionStep(op, val, r, depth) ==
    parseExpressionLoop(accumulate(r, IF op = "TokenPlus" THEN Add(val, r.val)
                                      ELSE Sub(val, r.val)),
                        depth)

parseExpressionLoop(r, depth) ==
    IF r.p.curr.typ \in {"TokenPlus", "TokenMinus"}
    THEN expressionStep(r.p.curr.typ, r.val, parseTerm(next(r.p), r.g, depth),
                        depth)
    ELSE r

parseExpression(p, g, depth) ==
    parseExpressionLoop(parseTerm(p, g, depth), depth)

\* evaluateExpression after the parse: (0, false) when the message is set.
evaluated(r) ==
    [ok |-> r.p.errMsg = NoError,
     val |-> IF r.p.errMsg # NoError THEN Zero ELSE r.val,
     errMsg |-> r.p.errMsg,
     first |-> r.p.first,
     g |-> IF r.p.errMsg # NoError
           THEN Emit(r.g, Output("expression error", r.p.errMsg.arg, NoVar))
           ELSE r.g]

evaluateExpression(expr, vs) ==
    evaluated(parseExpression(NewParser(expr), Globals(vs), 0))

\* ----------------------------------------------------------- processLine
\* A line of nothing but white space is dropped before anything else.
IsBlank(line) == TrimSpace(line) = <<>>

\* The line as the handlers see it: trimmed, one trailing ';' removed,
\* trimmed again.
Normalize(line) ==
    LET t == TrimSpace(line)
    IN  TrimSpace(IF HasSuffix(t, <<";">>) THEN SubSeq(t, 1, Len(t) - 1)
                  ELSE t)

\* The handler a line goes to: the tests of processLine in their order.
Route(line) ==
    IF IsBlank(line) THEN "empty"
    ELSE IF HasPrefix(Normalize(line), Chars("print")) THEN "print"
    ELSE IF Contains(Normalize(line), <<":">>) THEN "function"
    ELSE IF Contains(Normalize(line), Chars(")=")) THEN "typed"
    ELSE IF Contains(Normalize(line), <<"=">>) THEN "assign"
    ELSE "unknown"

\* What one printed variable shows.
Printed(vs, name) == Output("variable", name, vs[name])

\* The print handler's output.  A bare print lists the whole map in the
\* map's own order, which Go leaves unspecified: the listing is kept as
\* the map itself.
printOutput(line, vs) ==
    LET rest == TrimSpace(SubSeq(line, Len(Chars("print")) + 1, Len(line)))
        varName == IF rest[1] = "=" THEN TrimSpace(Tail(rest)) ELSE rest
    IN  IF rest = <<>> THEN <<Output("list", <<>>, vs)>>
        ELSE IF varName \in DOMAIN vs THEN <<Printed(vs, varName)>>
        ELSE <<Output("variable not declared", varName, NoVar)>>

\* The function-definition handler: the header's pieces, or malformed.
functionHeader(line) ==
    LET parts == SplitN2(line, <<":">>)
        left == TrimSpace(parts[1])
        right == TrimSpace(parts[2])
        idxOpenParen == Index(left, <<"(">>)
        idxCloseParen == Index(left, <<")">>)
        paramsStr == TrimSpace(SubSeq(left, idxOpenParen + 2, idxCloseParen))
        arr == Split(paramsStr, <<",">>)
    IN  IF idxOpenParen = -1 \/ idxCloseParen = -1
           \/ idxCloseParen < idxOpenParen
        THEN [ok |-> FALSE, funcName |-> <<>>, paramNames |-> <<>>,
              right |-> right]
        ELSE [ok |-> TRUE,
              funcName |-> TrimSpace(SubSeq(left, 1, idxOpenParen)),
              paramNames |-> IF paramsStr = <<>> THEN <<>>
                             ELSE [i \in 1..Len(arr) |-> TrimSpace(arr[i])],
              right |-> right]

\* The typed-initialization handler's split of the line.
typedHeader(line) ==
    LET parts == SplitN2(line, Chars(")="))
        left == parts[1]
        idxOpenParen == Index(left, <<"(">>)
    IN  [ok |-> idxOpenParen # -1,
         varName |-> TrimSpace(SubSeq(left, 1, idxOpenParen)),
         typeChar |-> TrimSpace(SubSeq(left, idxOpenParen + 2, Len(left))),
         right |-> TrimSpace(parts[2])]

\* The typed-initialization handler after a successful evaluation.
typedStore(vs, varName, typeChar, val) ==
    IF typeChar = <<"i">> THEN setVariable(vs, varName, TRUE, val)
    ELSE IF typeChar = <<"f">> THEN setVariable(vs, varName, FALSE, val)
    ELSE vs

\* assignStore inferring the flag from the value even when the variable
\* exists.
assignStoreInferring(vs, varName, val) ==
    [x \in DOMAIN vs \cup {varName} |->
        IF x = varName
        THEN [isInt |-> IsInteger(val),
              value |-> IF IsInteger(val) THEN Int64(val) ELSE val]
        ELSE vs[x]]

\* The plain-assignment handler after a successful evaluation.
assignStore(vs, varName, val) ==
    IF varName \in DOMAIN vs
    THEN [vs EXCEPT ![varName].value =
                        IF vs[varName].isInt THEN Int64(val) ELSE val]
    ELSE setVariable(vs, varName, IsInteger(val), val)

\* ------------------------------------------------------------ the system
\* The history of a line that evaluated nothing.
NoEval ==
    [evaluated |-> FALSE, ok |-> FALSE, val |-> Zero, errMsg |-> NoError,
     first |-> NoError, calls |-> <<>>]

History(line, route, target, ev, out, crash) ==
    [line |-> line, route |-> route, target |-> target,
     pre |-> variables, preF |-> functions,
     evaluated |-> ev.evaluated, ok |-> ev.ok, val |-> ev.val,
     errMsg |-> ev.errMsg, first |-> ev.first, calls |-> ev.calls,
     out |-> out, crash |-> crash]

Evaluated(e) ==
    [evaluated |-> TRUE, ok |-> e.ok, val |-> e.val, errMsg |-> e.errMsg,
     first |-> e.first, calls |-> e.g.calls]

\* The lines the input is drawn from.
LineTexts ==
    {"", "hello", "print", "print a;",
     "a(i)=2.5", "a(f)=3", "a(i)=1 / 0",
     "a = 7", "a = 2.5", "n = 5",
     "f(n): n*n", "f(n,n): n", "f(n): n + *", "f(n): f(n)", "g(n): f(n) + n",
     "a = f(4)", "a = f(2.5)", "a = f(1,2)", "a = f(1,2) + *",
     "a = g(2.5)", "n = f(1,2)",
     "a = 1 + * 2", "a = 1 $", "a = $",
     "a = 1 / 0", "a = -1 / 0", "a = 0 / 0", "a = (0-1) / 0",
     "a = + (1", "a = b + 1", "a = h(2) + 1",
     "printx = 1", "print =a", "f n: 1", "a(x)=f(1,2)",
     "s(n,m): n - m", "a = s(1, n)", "a = s(f(1,2), n)",
     "n(): 2"}

InputLines == {Chars(s) : s \in LineTexts}

Init ==
    /\ variables = <<>>
    /\ functions = <<>>
    /\ build \in Builds
    /\ pc = "running"
    /\ nlines = 0
    /\ last = History(<<>>, "init", <<>>, NoEval, <<>>, FALSE)

Reading == pc = "running" /\ nlines < MaxLines

\* What every handler does besides its own work: one more line was read.
Read == nlines' = nlines + 1 /\ UNCHANGED build

\* The end of a line whose evaluation overflowed the stack: the program
\* dies in the middle of the call.
Crashed(line, route, target, e) ==
    /\ pc' = "crashed"
    /\ UNCHANGED <<variables, functions>>
    /\ last' = History(line, route, target, Evaluated(e), e.g.out, TRUE)

EmptyLine(line) ==
    /\ Reading /\ Read
    /\ Route(line) = "empty"
    /\ UNCHANGED <<variables, functions, pc>>
    /\ last' = History(line, "empty", <<>>, NoEval, <<>>, FALSE)

PrintStatement(line) ==
    /\ Reading /\ Read
    /\ Route(line) = "print"
    /\ UNCHANGED <<variables, functions, pc>>
    /\ last' = History(line, "print", <<>>, NoEval,
                       printOutput(Normalize(line), variables), FALSE)

FunctionDefinition(line) ==
    /\ Reading /\ Read
    /\ Route(line) = "function"
    /\ \E h \in {functionHeader(Normalize(line))} :
          /\ functions' = IF h.ok
                          THEN setFunction(functions, h.funcName,
                                           h.paramNames, h.right)
                          ELSE functions
          /\ last' = History(line, "function", h.funcName, NoEval,
                             IF h.ok THEN <<>>
                             ELSE <<Output("bad function definition",
                                           Normalize(line), NoVar)>>,
                             FALSE)
    /\ UNCHANGED <<variables, pc>>

\* The typed-initialization handler from the evaluation on.
TypedEvaluated(line, h, e) ==
    /\ ~e.g.oor
    /\ IF e.g.crash THEN Crashed(line, "typed", h.varName, e)
       ELSE /\ variables' =
                  IF e.ok
                  THEN typedStore(e.g.variables, h.varName, h.typeChar, e.val)
                  ELSE e.g.variables
            /\ last' = History(line, "typed", h.varName, Evaluated(e),
                  IF e.ok /\ h.typeChar \notin {<<"i">>, <<"f">>}
                  THEN Append(e.g.out,
                              Output("unknown type", h.typeChar, NoVar))
                  ELSE e.g.out,
                  FALSE)
            /\ UNCHANGED <<functions, pc>>

TypedInitialization(line) ==
    /\ Reading /\ Read
    /\ Route(line) = "typed"
    /\ \E h \in {typedHeader(Normalize(line))} :
          IF ~h.ok
          THEN /\ UNCHANGED <<variables, functions, pc>>
               /\ last' = History(line, "typed", <<>>, NoEval,
                                  <<Output("bad initialization",
                                           Normalize(line), NoVar)>>, FALSE)
          ELSE \E e \in {evaluateExpression(h.right, variables)} :
                  TypedEvaluated(line, h, e)

\* The plain-assignment handler from the evaluation on.
AssignEvaluated(line, varName, e) ==
    /\ ~e.g.oor
    /\ IF e.g.crash THEN Crashed(line, "assign", varName, e)
       ELSE /\ variables' =
                  IF e.ok THEN assignStore(e.g.variables, varName, e.val)
                  ELSE e.g.variables
            /\ last' = History(line, "assign", varName, Evaluated(e),
                               e.g.out, FALSE)
            /\ UNCHANGED <<functions, pc>>

PlainAssignment(line) ==
    /\ Reading /\ Read
    /\ Route(line) = "assign"
    /\ \E parts \in {SplitN2(Normalize(line), <<"=">>)} :
       \E e \in {evaluateExpression(TrimSpace(parts[2]), variables)} :
          AssignEvaluated(line, TrimSpace(parts[1]), e)

UnrecognizedLine(line) ==
    /\ Reading /\ Read
    /\ Route(line) = "unknown"
    /\ UNCHANGED <<variables, functions, pc>>
    /\ last' = History(line, "unknown", <<>>, NoEval,
                       <<Output("cannot parse", Normalize(line), NoVar)>>,
                       FALSE)

\* main after the last line: both maps are set to nil.
EndOfInput ==
    /\ pc = "running"
    /\ pc' = "done"
    /\ variables' = <<>>
    /\ functions' = <<>>
    /\ last' = History(<<>>, "eof", <<>>, NoEval, <<>>, FALSE)
    /\ UNCHANGED <<build, nlines>>

Next ==
    \/ \E line \in InputLines :
          \/ EmptyLine(line)
          \/ PrintStatement(line)
          \/ FunctionDefinition(line)
          \/ TypedInitialization(line)
          \/ PlainAssignment(line)
          \/ UnrecognizedLine(line)
    \/ EndOfInput

Spec == Init /\ [][Next]_vars

\* ------------------------------------------------------------ properties
\* The last line ran to its end as a typed initialization or as a plain
\* assignment, so its right-hand side was evaluated.
Assigned == last.route \in {"typed", "assign"} /\ last.evaluated /\ ~last.crash

\* The type tag and the right-hand side of the last line.
LastTag == typedHeader(Normalize(last.line)).typeChar
LastRhs ==
    IF last.route = "typed" THEN typedHeader(Normalize(last.line)).right
    ELSE TrimSpace(SplitN2(Normalize(last.line), <<"=">>)[2])

\* The last line left its target as it was: absent, or the same variable.
TargetUntouched ==
    IF last.target \in DOMAIN last.pre
    THEN last.target \in DOMAIN variables
         /\ variables[last.target] = last.pre[last.target]
    ELSE last.target \notin DOMAIN variables

\* The calls the last line made that returned.
Calls == {last.calls[i] : i \in 1..Len(last.calls)}

\* The names of a call's parameters.
ParamNames(c) == {c.params[k] : k \in 1..Len(c.params)}

\* C1: a typed initialization name(i)=expr / name(f)=expr that evaluates
\* without error leaves name with isInt = TRUE for tag i and FALSE for tag
\* f, also when name existed with the other flag.
C1_TypedInitForcesType ==
    (Assigned /\ last.route = "typed" /\ last.ok
        /\ LastTag \in {<<"i">>, <<"f">>})
    => /\ last.target \in DOMAIN variables
       /\ variables[last.target].isInt = (LastTag = <<"i">>)

\* C2: a parameter name that was no variable right before a call is no
\* variable again after the call returns, repeated names included.
C2_AbsentParamStaysAbsent ==
    \A c \in Calls : \A name \in ParamNames(c) :
        name \notin DOMAIN c.before => name \notin DOMAIN c.after

\* C3: a parameter name that was a variable right before a call is, after
\* the call returns, that variable with the flag and value it had.
C3_PresentParamRestored ==
    \A c \in Calls : \A name \in ParamNames(c) :
        name \in DOMAIN c.before
        => name \in DOMAIN c.after /\ c.after[name] = c.before[name]

\* C4: while the body runs, a parameter is a variable whose flag comes from
\* the argument alone and whose value is the argument coerced by that flag
\* (of a repeated name, the last argument bound to it).
C4_ParamTypedByArgument ==
    \A c \in Calls : \A k \in 1..Len(c.params) :
        (\A j \in (k + 1)..Len(c.params) : c.params[j] # c.params[k])
        => c.bound[c.params[k]] =
              [isInt |-> IsInteger(c.args[k]),
               value |-> IF IsInteger(c.args[k]) THEN Int64(c.args[k])
                         ELSE c.args[k]]

\* Truncation toward zero as arithmetic has it: the integer part of a
\* finite value; an infinity or a NaN has none but itself.
Trunc(x) ==
    IF x.k = "fin"
    THEN [k |-> "fin", d |-> 1,
          n |-> IF x.n >= 0 THEN x.n \div x.d ELSE -((-x.n) \div x.d)]
    ELSE x

Integral(x) == x.k \in {"min64", "max64"} \/ (x.k = "fin" /\ x.d = 1)

\* Every isInt variable holds an integral value.
IntVariablesIntegral ==
    \A name \in DOMAIN variables :
        variables[name].isInt => Integral(variables[name].value)

\* C5: after a successful assignment (plain or typed) to a variable whose
\* isInt flag is true the stored value is the truncation toward zero of the
\* value computed for the right-hand side, and so every isInt variable
\* holds an integral value.
C5_IntStoresTruncation ==
    /\ IntVariablesIntegral
    /\ (Assigned /\ last.ok /\ last.target \in DOMAIN variables
           /\ (last.route = "typed" => LastTag \in {<<"i">>, <<"f">>})
           /\ variables[last.target].isInt)
       => variables[last.target].value = Trunc(last.val)

\* C6: a plain assignment, successful or not, with or without calls in its
\* expression, leaves the isInt flag of every variable that existed; after
\* a(f)=3 and a = 7 the variable a is float 7 and prints as such.
C6_PlainAssignKeepsFlag ==
    last.route = "assign"
    => /\ \A name \in DOMAIN last.pre :
             /\ name \in DOMAIN variables
             /\ variables[name].isInt = last.pre[name].isInt
       /\ (/\ ~last.crash /\ last.ok /\ last.val = Fin(7, 1)
           /\ last.target \in DOMAIN last.pre
           /\ ~last.pre[last.target].isInt)
          => printOutput(Chars("print ") \o last.target, variables)
                = <<Output("variable", last.target,
                           [isInt |-> FALSE, value |-> Fin(7, 1)])>>

\* C6's case: a float variable was assigned the integer 7 and is float 7.
C6_Witness ==
    /\ last.route = "assign" /\ ~last.crash /\ last.ok
    /\ last.target \in DOMAIN last.pre
    /\ ~last.pre[last.target].isInt
    /\ last.pre[last.target].value = Fin(3, 1)
    /\ last.val = Fin(7, 1)
    /\ variables[last.target] = [isInt |-> FALSE, value |-> Fin(7, 1)]

\* C7: an assignment whose top-level evaluation ends with the error flag
\* set changes nothing: variables and functions are what they were.
C7_FailedEvaluationNoMutation ==
    (Assigned /\ ~last.ok)
    => variables = last.pre /\ functions = last.preF

\* C8: a parse error raised while the right-hand side is evaluated, inside
\* the body of a called function included, leaves the target of the
\* assignment neither created nor updated.
C8_AnyParseErrorDiscards ==
    (Assigned /\ (last.errMsg # NoError
                    \/ \E c \in Calls : c.errMsg # NoError))
    => TargetUntouched

\* C9 as claimed: 1 / 0, -1 / 0 and 0 / 0 evaluate without the error flag
\* to +Inf, -Inf and NaN, and the assignment is applied.
C9_Original ==
    (Assigned /\ LastRhs \in {Chars("1 / 0"), Chars("-1 / 0"), Chars("0 / 0")})
    => /\ last.ok
       /\ last.val = (IF LastRhs = Chars("1 / 0") THEN PInf
                      ELSE IF LastRhs = Chars("0 / 0") THEN NaN ELSE NInf)
       /\ last.target \in DOMAIN variables

\* The assignment of the last line took place: the target holds the value
\* computed, coerced when the target is an integer variable.
Applied ==
    /\ last.target \in DOMAIN variables
    /\ variables[last.target].value =
          IF variables[last.target].isInt THEN Int64(last.val) ELSE last.val

\* C9: division by zero is no error: 1 / 0, (0-1) / 0 and 0 / 0 evaluate
\* without the error flag to +Inf, -Inf and NaN and the assignment is
\* applied; -1 / 0 is a parse error, for '-' cannot start a factor, and its
\* assignment is discarded.
C9_DivisionByZero ==
    /\ (Assigned /\ LastRhs \in {Chars("1 / 0"), Chars("(0-1) / 0"),
                                 Chars("0 / 0")})
       => /\ last.ok
          /\ last.val = (IF LastRhs = Chars("1 / 0") THEN PInf
                         ELSE IF LastRhs = Chars("0 / 0") THEN NaN ELSE NInf)
          /\ Applied
    /\ (Assigned /\ LastRhs = Chars("-1 / 0"))
       => /\ ~last.ok
          /\ last.errMsg = Message("unexpected token", <<"-">>)
          /\ variables = last.pre

\* C9's case: a negative dividend over zero was assigned as -Inf.
C9_Witness ==
    /\ Assigned /\ LastRhs = Chars("(0-1) / 0")
    /\ last.ok /\ last.val = NInf
    /\ variables[last.target] = [isInt |-> FALSE, value |-> NInf]

\* The lexer meets an error token somewhere in the text.
RECURSIVE HasErrorToken(_)
HasErrorToken(l) ==
    IF NextToken(l).tok.typ = "TokenEOF" THEN FALSE
    ELSE NextToken(l).tok.typ = "TokenError" \/ HasErrorToken(NextToken(l).l)

\* C10: an unrecognized character anywhere in the right-hand side, after a
\* complete expression included, is a parse error: the statement is
\* discarded and its target is neither created nor changed.
C10_ErrorTokenDiscards ==
    (Assigned /\ HasErrorToken(NewLexer(LastRhs)))
    => ~last.ok /\ TargetUntouched

\* C11: within one evaluation the error state is sticky: once the first
\* error set the flag and its message, nothing later in the same
\* expression clears the flag or overwrites the message, so the message
\* at the end is that of the first error (in the statement's parser and in
\* the parser of every function body).
C11_FirstErrorReported ==
    /\ last.evaluated => last.errMsg = last.first
    /\ \A c \in Calls : c.errMsg = c.first

\* The diagnostics the last line printed.
Diagnostics == {last.out[i] : i \in 1..Len(last.out)}

\* C12: an undeclared variable and a call of an undeclared function count
\* as 0 and set no error flag, so the statement is applied: with b
\* undeclared a = b + 1 leaves a with the value 1 (an integer variable when
\* a is new), and so does a = h(2) + 1 with h undeclared.
C12_UndeclaredIsZero ==
    (Assigned
       /\ \/ LastRhs = Chars("b + 1") /\ <<"b">> \notin DOMAIN last.pre
          \/ LastRhs = Chars("h(2) + 1") /\ <<"h">> \notin DOMAIN last.preF)
    => /\ last.ok /\ last.errMsg = NoError
       /\ last.val = Fin(1, 1)
       /\ \E o \in Diagnostics :
             o.kind \in {"undeclared variable", "undeclared function"}
       /\ Applied
       /\ last.target \notin DOMAIN last.pre
          => variables[last.target] = [isInt |-> TRUE, value |-> Fin(1, 1)]

\* C12's case: with b undeclared, a = b + 1 created a as the integer 1.
C12_Witness ==
    /\ Assigned /\ LastRhs = Chars("b + 1")
    /\ <<"b">> \notin DOMAIN last.pre
    /\ <<"a">> \notin DOMAIN last.pre
    /\ Output("undeclared variable", <<"b">>, NoVar) \in Diagnostics
    /\ variables[<<"a">>] = [isInt |-> TRUE, value |-> Fin(1, 1)]

\* The last line assigned the call f(4) or f(1,2) of a function f defined
\* with another number of parameters; the number of arguments passed.
LastArgCount ==
    IF LastRhs = Chars("f(4)") THEN 1
    ELSE IF LastRhs = Chars("f(1,2)") THEN 2 ELSE 0

ArityMismatch ==
    /\ Assigned /\ LastArgCount > 0
    /\ <<"f">> \in DOMAIN last.preF
    /\ Len(last.preF[<<"f">>].params) # LastArgCount

\* C13: a top-level call of a defined function with a number of arguments
\* other than its number of parameters sets the error flag, evaluates no
\* body and binds no parameter, and the assignment is discarded: the
\* target is neither created nor changed.
C13_ArityMismatchDiscards ==
    ArityMismatch
    => /\ ~last.ok
       /\ last.errMsg =
             Message("function expected arguments",
                     <<"f", " ",
                       DigitChar(Len(last.preF[<<"f">>].params)), " ",
                       DigitChar(LastArgCount)>>)
       /\ last.calls = <<>>
       /\ variables = last.pre
       /\ TargetUntouched

\* C13's case: f of one parameter was called with two arguments while the
\* target existed, and the target is what it was.
C13_Witness ==
    /\ ArityMismatch /\ LastArgCount = 2
    /\ last.target \in DOMAIN last.pre
    /\ ~last.ok /\ last.calls = <<>>
    /\ variables = last.pre

\* The handler a line belongs to when a print statement is a line whose
\* first token is print.
TokenRoute(line) ==
    IF IsBlank(line) THEN "empty"
    ELSE IF NewParser(Normalize(line)).curr =
                Token("TokenIdent", Chars("print")) THEN "print"
    ELSE IF Contains(Normalize(line), <<":">>) THEN "function"
    ELSE IF Contains(Normalize(line), Chars(")=")) THEN "typed"
    ELSE IF Contains(Normalize(line), <<"=">>) THEN "assign"
    ELSE "unknown"

\* C14: a line goes to one handler, the first that matches of print
\* statement (first token print), function definition (':'), typed
\* initialization (')='), plain assignment ('='), unrecognized; a line
\* ident = expr whose identifier only begins with the letters print is a
\* plain assignment and creates or updates that variable.
C14_RoutedByFirstToken ==
    last.route \notin {"init", "eof"}
    => /\ last.route = TokenRoute(last.line)
       /\ TokenRoute(last.line) = "assign"
          => /\ last.route = "assign"
             /\ (last.ok /\ ~last.crash) => Applied

\* C15: no line removes an entry of the Store: every variable name and
\* every function name present before a line is present after it; what a
\* call deletes it puts back before the line ends.
C15_NothingRemoved ==
    (last.route \notin {"init", "eof"} /\ ~last.crash)
    => /\ DOMAIN last.pre \subseteq DOMAIN variables
       /\ DOMAIN last.preF \subseteq DOMAIN functions

\* C15's case: a call bound a parameter whose name was a variable, and the
\* variable is there after the line.
C15_Witness ==
    /\ Assigned
    /\ \E c \in Calls : \E name \in ParamNames(c) :
          /\ name \in DOMAIN last.pre
          /\ name \in DOMAIN c.before
          /\ name \in DOMAIN variables
    /\ DOMAIN last.pre \subseteq DOMAIN variables
    /\ DOMAIN last.preF # {}

\* The calls of the last line are logged as they return, a call after the
\* calls its body made.  Inner(i): the calls made while call i ran.
Inner(i) ==
    {j \in 1..(i - 1) :
        \A k \in j..(i - 1) : last.calls[k].depth > last.calls[i].depth}

\* No name twice in the call's parameter list.
DistinctParams(c) == Cardinality(ParamNames(c)) = Len(c.params)

\* Call i came from the statement itself, its parameters are distinct, and
\* its body called a function of distinct parameters that shares a name
\* with it.
NestedSharing(i) ==
    /\ last.calls[i].depth = 1
    /\ DistinctParams(last.calls[i])
    /\ \E j \in Inner(i) :
          /\ DistinctParams(last.calls[j])
          /\ ParamNames(last.calls[j]) \cap ParamNames(last.calls[i]) # {}

\* C16 as claimed: nested calls sharing a parameter name corrupt each
\* other's saved state: after the top-level call returns some variable is
\* not what it was before the call.
C16_Original ==
    \A i \in 1..Len(last.calls) :
        NestedSharing(i) => last.calls[i].after # last.calls[i].before

\* C16: every call keeps a backup of its own, so nested calls do not
\* corrupt each other's saved state, sharing a parameter name or not: a
\* call whose parameters are distinct, and so are those of every call its
\* body makes, returns with every variable as it was before the call.
C16_NestedCallsRestore ==
    \A i \in 1..Len(last.calls) :
        (/\ DistinctParams(last.calls[i])
         /\ \A j \in Inner(i) : DistinctParams(last.calls[j]))
        => last.calls[i].after = last.calls[i].before

\* C16's case: g(n) called f(n); the inner call saved the n the outer call
\* had bound and put it back, and the outer call left the Store as it was.
C16_Witness ==
    \E i \in 1..Len(last.calls) :
        /\ NestedSharing(i)
        /\ \E j \in Inner(i) : \E name \in ParamNames(last.calls[j]) :
              /\ name \in ParamNames(last.calls[i])
              /\ name \in DOMAIN last.calls[j].before
              /\ last.calls[j].before[name] = last.calls[i].bound[name]
              /\ last.calls[j].after = last.calls[j].before
        /\ last.calls[i].after = last.calls[i].before
        /\ last.ok /\ last.val = Fin(35, 4)

\* C17: every line runs to its end and the next line is then processed:
\* no line, whatever the functions its expression calls, makes the run
\* abort before the end of the input.
C17_EveryLineCompletes == ~last.crash /\ pc \in {"running", "done"}

\* The last line is no successful definition or assignment: a print
\* statement, an empty or unrecognized line, a function definition with a
\* malformed header, a typed initialization with a malformed header or
\* with a tag other than i and f.
NotApplied ==
    \/ last.route \in {"print", "empty", "unknown"}
    \/ last.route = "function" /\ ~functionHeader(Normalize(last.line)).ok
    \/ last.route = "typed"
          /\ \/ ~typedHeader(Normalize(last.line)).ok
             \/ LastTag \notin {<<"i">>, <<"f">>}

\* C18: a line that is no successful definition or assignment leaves the
\* whole Store as it was before the line.
C18_NotAppliedNoChange ==
    NotApplied => variables = last.pre /\ functions = last.preF

\* The last line assigned a call of s(n,m) whose second argument is the
\* variable n, the name of s's first parameter.
SecondArgumentReadsN ==
    /\ Assigned
    /\ LastRhs \in {Chars("s(1, n)"), Chars("s(f(1,2), n)")}
    /\ <<"s">> \in DOMAIN last.preF
    /\ last.preF[<<"s">>].params = << <<"n">>, <<"m">> >>

\* The value a reference to the variable name has in the Store vs.
ValueIn(vs, name) == IF name \in DOMAIN vs THEN vs[name].value ELSE Zero

\* C19: the arguments of a call are all evaluated, left to right, against
\* the caller's Store before a parameter is bound: an argument naming a
\* variable that is also a parameter of the callee is the value that
\* variable had in the caller's Store before the call (0 when it was
\* undeclared), whatever its position: in s(1, n) and s(f(1,2), n), n
\* being s's first parameter, the second argument is the n of before the
\* line.
C19_ArgumentsReadCallerStore ==
    SecondArgumentReadsN
    => \A c \in Calls :
          (c.depth = 1 /\ c.params = << <<"n">>, <<"m">> >>)
          => c.args[2] = ValueIn(last.pre, <<"n">>)

\* The header of the last line, a function definition.
LastHeader == functionHeader(Normalize(last.line))

\* C20: a function definition with a well-formed header registers the
\* function without evaluating the body, whatever the body; it replaces an
\* earlier definition of the name entirely, so that a later call checks
\* its arguments against the new parameter list and evaluates the new
\* body; it leaves every variable, one of the function's name included,
\* and every other function as they were.
C20_DefinitionRegisters ==
    /\ (last.route = "function" /\ LastHeader.ok)
       => /\ DOMAIN functions = DOMAIN last.preF \cup {LastHeader.funcName}
          /\ functions[LastHeader.funcName] =
                [params |-> LastHeader.paramNames,
                 expression |-> LastHeader.right]
          /\ \A name \in DOMAIN last.preF \ {LastHeader.funcName} :
                functions[name] = last.preF[name]
          /\ variables = last.pre
          /\ ~last.evaluated /\ last.out = <<>>
    /\ (Assigned /\ LastRhs = Chars("f(4)") /\ <<"f">> \in DOMAIN last.preF)
       => /\ Len(last.preF[<<"f">>].params) = 2 => ~last.ok
          /\ last.preF[<<"f">>] =
                [params |-> << <<"n">> >>, expression |-> Chars("n*n")]
             => last.ok /\ last.val = Fin(16, 1)

\* C20's case: f was defined again with another parameter list and a body
\* that does not parse, while a variable existed; the new definition is
\* the one registered and the variable is what it was.
C20_Witness ==
    /\ last.route = "function" /\ LastHeader.ok
    /\ LastHeader.funcName \in DOMAIN last.preF
    /\ last.preF[LastHeader.funcName].params # LastHeader.paramNames
    /\ LastHeader.right = Chars("n + *")
    /\ functions[LastHeader.funcName].expression = Chars("n + *")
    /\ last.pre # <<>> /\ variables = last.pre
====
